---- MODULE Spec2Model ----
(***************************************************************************)
(* cnocr/symbols/densenet.py: the DenseNet feature extractor.             *)
(*                                                                         *)
(* The layer graph is modelled as a tree of layer descriptions, built by   *)
(* the same helper calls as the source.  A tensor is modelled by its      *)
(* shape (batch, channels, height, width) and by the random draws that    *)
(* went into it; a forward pass walks the tree layer by layer and          *)
(* allocates each parameterised layer's deferred input-channel count on   *)
(* the way (imperative execution), or all of them once the whole walk has *)
(* succeeded (hybridized execution).  Channel counts are drawn from the   *)
(* widths a convolution can carry; what the layer library does with      *)
(* widths below 1 is not part of this file.                               *)
(***************************************************************************)
EXTENDS Integers, Sequences, FiniteSets, TLC

VARIABLES
    layer_channels,  \* the constructor argument
    pc,              \* position inside DenseNet.__init__ ("L103".."built"), or "AssertionError"
    parentInit,      \* HybridBlock.__init__ has run (densenet.py:104)
    features,        \* children of self.features, in order of addition
    active,          \* HybridBlock._active: hybridize() has been called
    alloc,           \* per parameterised layer (depth-first order): in_channels, 0 = deferred
    succeeded,       \* some forward pass has run to completion
    last,            \* the last forward pass: input, outcome, what it allocated
    unit             \* a helper-built block applied on its own (SpecBlocks)

vars == <<layer_channels, pc, parentInit, features, active, alloc, succeeded, last, unit>>

----------------------------------------------------------------------------
(* Bounds of the model *)

MaxLen == 5

MaxLayers == 3

ChanVals == {1, 4}

LastChanVals == {4, 9}

NoiseVals == {0, 1}

Shape(n, c, h, w) == [n |-> n, c |-> c, h |-> h, w |-> w]

\* Input tensors (batch, channels, height, width): the text-line height 32
\* at the smallest width, one row and one column short of it, and larger
\* colour images whose sizes are not multiples of the strides
InputShapes ==
    {Shape(1, 1, 32, 8), Shape(1, 1, 31, 8), Shape(1, 1, 32, 7), Shape(1, 1, 31, 7),
     Shape(1, 1, 32, 280), Shape(1, 1, 40, 12),
     Shape(2, 3, 47, 11), Shape(2, 3, 64, 13), Shape(1, 3, 8, 280)}

RECURSIVE SeqsOfLen(_, _)
SeqsOfLen(S, k) ==
    IF k = 0 THEN {<<>>}
    ELSE {Append(s, e) : s \in SeqsOfLen(S, k - 1), e \in S}

\* Length-4 configurations with channel counts the convolutions can carry:
\* every width at least 1, the final bottleneck width c3 // 4 at least 1
ValidConfigs ==
    {<<c0, c1, c2, c3>> : c0 \in ChanVals, c1 \in ChanVals, c2 \in ChanVals, c3 \in LastChanVals}

\* and lists of every other length up to MaxLen
Configs == ValidConfigs \cup UNION {SeqsOfLen(ChanVals, k) : k \in (0..MaxLen) \ {4}}

\* Inputs of the helper-built blocks
BlockShapes == {Shape(1, 1, 1, 1), Shape(1, 3, 8, 70), Shape(2, 6, 5, 9)}

----------------------------------------------------------------------------
(* Layer descriptions: the Gluon primitives the file instantiates *)

Conv2D(channels, kernel_size, strides, padding) ==
    [op |-> "Conv2D", channels |-> channels, kernel_size |-> kernel_size,
     strides |-> strides, padding |-> padding]

BatchNorm == [op |-> "BatchNorm"]

Activation(act) == [op |-> "Activation", act |-> act]

MaxPool2D(pool_size, strides) ==
    [op |-> "MaxPool2D", pool_size |-> pool_size, strides |-> strides]

Dropout(rate) == [op |-> "Dropout", rate |-> rate]

Identity == [op |-> "Identity"]

HybridSequential(prefix, children) ==
    [op |-> "HybridSequential", prefix |-> prefix, children |-> children]

HybridConcurrent(axis, children) ==
    [op |-> "HybridConcurrent", axis |-> axis, children |-> children]

\* an int argument n for kernel_size / strides / padding stands for (n, n)
Pair(n) == <<n, n>>

----------------------------------------------------------------------------
(* The helpers of densenet.py *)

\* the cell added twice, the identity branch left out
_make_residual_CellTwice(cell_net) == HybridConcurrent(1, <<cell_net, cell_net>>)

\* densenet.py:65-70
_make_residual(cell_net) == HybridConcurrent(1, <<Identity, cell_net>>)

\* densenet.py:49-62; dropout is a percentage, 0 for 0.0
_make_dense_layer(growth_rate, bn_size, dropout) ==
    LET base == <<BatchNorm,
                  Activation("relu"),
                  Conv2D(bn_size * growth_rate, Pair(1), Pair(1), Pair(0)),
                  BatchNorm,
                  Activation("relu"),
                  Conv2D(growth_rate, Pair(3), Pair(1), Pair(1))>>
        new_features == IF dropout # 0 THEN Append(base, Dropout(dropout)) ELSE base
    IN  _make_residual(HybridSequential("", new_features))

\* densenet.py:41-46
_make_dense_block(num_layers, bn_size, growth_rate, dropout, stage_index) ==
    HybridSequential(<<"stage", stage_index>>,
        [i \in 1..num_layers |-> _make_dense_layer(growth_rate, bn_size, dropout)])

\* the strides argument dropped: always the default stride 2
_make_transition_DefaultStrides(num_output_features, strides) ==
    HybridSequential("",
        <<BatchNorm,
          Activation("relu"),
          Conv2D(num_output_features, Pair(1), Pair(1), Pair(0)),
          MaxPool2D(Pair(2), Pair(2))>>)

\* densenet.py:73-79; strides is a pair, the default strides=2 being Pair(2)
_make_transition(num_output_features, strides) ==
    HybridSequential("",
        <<BatchNorm,
          Activation("relu"),
          Conv2D(num_output_features, Pair(1), Pair(1), Pair(0)),
          MaxPool2D(Pair(2), strides)>>)

\* densenet.py:150-161
_make_first_stage_net(out_channels) ==
    _make_residual(HybridSequential(<<"stage", 0>>,
        <<Conv2D(out_channels[1], Pair(3), Pair(1), Pair(1)),
          BatchNorm,
          Activation("relu"),
          Conv2D(out_channels[2], Pair(3), Pair(1), Pair(1))>>))

\* dropout=0.5 handed to the dense block
_make_inter_stage_net_Dropout(stage_index, num_layers, growth_rate) ==
    _make_dense_block(num_layers, 2, growth_rate, 50, stage_index)

\* densenet.py:164-165
_make_inter_stage_net(stage_index, num_layers, growth_rate) ==
    _make_dense_block(num_layers, 2, growth_rate, 0, stage_index)

\* the two convolution widths exchanged
_make_final_stage_net_Swapped(stage_index, out_channels) ==
    HybridSequential(<<"stage", stage_index>>,
        <<BatchNorm,
          Activation("relu"),
          Conv2D(out_channels, Pair(1), Pair(1), Pair(0)),
          BatchNorm,
          Activation("relu"),
          Conv2D(out_channels \div 4, <<4, 1>>, Pair(1), Pair(0)),
          BatchNorm,
          Activation("relu")>>)

\* the last kernel transposed: (1, 4) for (4, 1)
_make_final_stage_net_Transposed(stage_index, out_channels) ==
    HybridSequential(<<"stage", stage_index>>,
        <<BatchNorm,
          Activation("relu"),
          Conv2D(out_channels \div 4, Pair(1), Pair(1), Pair(0)),
          BatchNorm,
          Activation("relu"),
          Conv2D(out_channels, <<1, 4>>, Pair(1), Pair(0)),
          BatchNorm,
          Activation("relu")>>)

\* densenet.py:168-179
_make_final_stage_net(stage_index, out_channels) ==
    HybridSequential(<<"stage", stage_index>>,
        <<BatchNorm,
          Activation("relu"),
          Conv2D(out_channels \div 4, Pair(1), Pair(1), Pair(0)),
          BatchNorm,
          Activation("relu"),
          Conv2D(out_channels, <<4, 1>>, Pair(1), Pair(0)),
          BatchNorm,
          Activation("relu")>>)

----------------------------------------------------------------------------
(* Execution of a layer on a tensor shape *)

NoShape == Shape(0, 0, 0, 0)

\* The walk's state: the current tensor shape, the parameter allocation, the
\* index of the last parameterised layer passed, the number of random masks
\* drawn, the shapes after each child of the traced container.
Start(x, a) == [ok |-> TRUE, shape |-> x, alloc |-> a, idx |-> 0, ndrop |-> 0, trace |-> <<>>]

Fail(st) == [st EXCEPT !.ok = FALSE]

\* in_channels inferred anew from every input
Bind_Rebind(st, i) == TRUE

\* Conv2D and BatchNorm are created without in_channels: it is inferred from
\* the first input that reaches the layer and is fixed from then on
Bind(st, i) == st.alloc[i] = 0 \/ st.alloc[i] = st.shape.c

\* nn.Conv2D: (d + 2 * pad - kernel) // stride + 1 per spatial dimension,
\* `channels` output channels; the kernel must fit the padded input
Conv2DForward(l, st) ==
    LET x == st.shape
        i == st.idx + 1
        ph == x.h + 2 * l.padding[1]
        pw == x.w + 2 * l.padding[2]
    IN  IF ph >= l.kernel_size[1] /\ pw >= l.kernel_size[2] /\ Bind(st, i)
        THEN [st EXCEPT !.shape = Shape(x.n, l.channels,
                                        (ph - l.kernel_size[1]) \div l.strides[1] + 1,
                                        (pw - l.kernel_size[2]) \div l.strides[2] + 1),
                        !.alloc[i] = x.c,
                        !.idx = i]
        ELSE Fail(st)

\* nn.BatchNorm: shape unchanged, per-channel parameters
BatchNormForward(l, st) ==
    LET i == st.idx + 1
    IN  IF Bind(st, i)
        THEN [st EXCEPT !.alloc[i] = st.shape.c, !.idx = i]
        ELSE Fail(st)

\* nn.MaxPool2D, no padding, 'valid' convention: (d - pool) // stride + 1
MaxPool2DForward(l, st) ==
    LET x == st.shape
    IN  IF x.h >= l.pool_size[1] /\ x.w >= l.pool_size[2]
        THEN [st EXCEPT !.shape = Shape(x.n, x.c,
                                        (x.h - l.pool_size[1]) \div l.strides[1] + 1,
                                        (x.w - l.pool_size[2]) \div l.strides[2] + 1)]
        ELSE Fail(st)

\* nn.Dropout: shape unchanged, one random mask drawn
DropoutForward(l, st) == [st EXCEPT !.ndrop = st.ndrop + 1]

\* HybridConcurrent joins its children's outputs along `axis` (1: channels);
\* the other dimensions must agree
Concat(axis, a, b) ==
    IF axis = 1 /\ a.n = b.n /\ a.h = b.h /\ a.w = b.w
    THEN Shape(a.n, a.c + b.c, a.h, a.w)
    ELSE NoShape

\* the k-th child's result r joined to the outputs collected in st
Joined(axis, k, st, r) ==
    IF ~r.ok \/ k = 1 THEN r
    ELSE IF Concat(axis, st.shape, r.shape) = NoShape THEN Fail(r)
    ELSE [r EXCEPT !.shape = Concat(axis, st.shape, r.shape)]

RECURSIVE Apply(_, _), ApplySequential(_, _, _), ApplyConcurrent(_, _, _, _, _)

Apply(l, st) ==
    IF ~st.ok THEN st
    ELSE CASE l.op = "Conv2D" -> Conv2DForward(l, st)
           [] l.op = "BatchNorm" -> BatchNormForward(l, st)
           [] l.op = "MaxPool2D" -> MaxPool2DForward(l, st)
           [] l.op = "Dropout" -> DropoutForward(l, st)
           [] l.op = "Activation" -> st
           [] l.op = "Identity" -> st
           [] l.op = "HybridSequential" -> ApplySequential(l.children, 1, st)
           [] l.op = "HybridConcurrent" ->
                ApplyConcurrent(l.axis, l.children, 1, st, st.shape)

\* HybridSequential.hybrid_forward: for block in children: x = block(x)
ApplySequential(children, k, st) ==
    IF k > Len(children) \/ ~st.ok THEN st
    ELSE ApplySequential(children, k + 1, Apply(children[k], st))

\* HybridConcurrent.hybrid_forward: every child runs on the same input x and
\* the outputs are concatenated
ApplyConcurrent(axis, children, k, st, x) ==
    IF k > Len(children) \/ ~st.ok THEN st
    ELSE ApplyConcurrent(axis, children, k + 1,
                         Joined(axis, k, st, Apply(children[k], [st EXCEPT !.shape = x])), x)

Traced(r) == IF r.ok THEN [r EXCEPT !.trace = Append(r.trace, r.shape)] ELSE r

\* A sequential container run child by child, recording the shape after
\* each child
RECURSIVE RunChildren(_, _, _)
RunChildren(children, k, st) ==
    IF k > Len(children) \/ ~st.ok THEN st
    ELSE RunChildren(children, k + 1, Traced(Apply(children[k], st)))

\* Number of parameterised layers (Conv2D, BatchNorm) of a block
RECURSIVE NumParamLayers(_), NumParamLayersOf(_, _)
NumParamLayers(l) ==
    CASE l.op \in {"Conv2D", "BatchNorm"} -> 1
      [] l.op \in {"HybridSequential", "HybridConcurrent"} -> NumParamLayersOf(l.children, 1)
      [] OTHER -> 0

NumParamLayersOf(children, k) ==
    IF k > Len(children) THEN 0
    ELSE NumParamLayers(children[k]) + NumParamLayersOf(children, k + 1)

Deferred(n) == [i \in 1..n |-> 0]

\* a block run on x with freshly registered parameters
Fresh(block, x) == Start(x, Deferred(NumParamLayers(block)))

----------------------------------------------------------------------------
(* DenseNet.__init__, densenet.py:102-128, one action per statement *)

\* layer_channels[i], indexed from 0 as in the source
LC(i) == layer_channels[i + 1]

NoAgain == [ran |-> FALSE, ok |-> FALSE, out |-> NoShape, noise |-> <<>>]

NoPass == [ran |-> FALSE, in |-> NoShape, ok |-> FALSE, out |-> NoShape,
           noise |-> <<>>, trace |-> <<>>, allocated |-> FALSE,
           after_success |-> FALSE, again |-> NoAgain]

NoUnit == [kind |-> "none", ran |-> FALSE]

Init ==
    /\ layer_channels \in Configs
    /\ pc = "L103"
    /\ parentInit = FALSE
    /\ features = <<>>
    /\ active = FALSE
    /\ alloc = <<>>
    /\ succeeded = FALSE
    /\ last = NoPass
    /\ unit = NoUnit

\* the assertion written as len(layer_channels) >= 4
Assert103_AtLeast ==
    /\ pc = "L103"
    /\ pc' = IF Len(layer_channels) >= 4 THEN "L104" ELSE "AssertionError"
    /\ UNCHANGED <<layer_channels, parentInit, features, active, alloc, succeeded, last, unit>>

\* densenet.py:103  assert len(layer_channels) == 4
Assert103 ==
    /\ pc = "L103"
    /\ pc' = IF Len(layer_channels) = 4 THEN "L104" ELSE "AssertionError"
    /\ UNCHANGED <<layer_channels, parentInit, features, active, alloc, succeeded, last, unit>>

\* densenet.py:104  super(DenseNet, self).__init__(**kwargs)
SuperInit104 ==
    /\ pc = "L104"
    /\ parentInit' = TRUE
    /\ pc' = "L107"
    /\ UNCHANGED <<layer_channels, features, active, alloc, succeeded, last, unit>>

\* densenet.py:107  self.features = nn.HybridSequential(prefix='')
NewFeatures107 ==
    /\ pc = "L107"
    /\ features' = <<>>
    /\ pc' = "L108"
    /\ UNCHANGED <<layer_channels, parentInit, active, alloc, succeeded, last, unit>>

\* self.features.add(block): the block is appended and its parameters are
\* registered with deferred shapes
FeaturesAdd(at, block, next) ==
    /\ pc = at
    /\ features' = Append(features, block)
    /\ alloc' = alloc \o Deferred(NumParamLayers(block))
    /\ pc' = next
    /\ UNCHANGED <<layer_channels, parentInit, active, succeeded, last, unit>>

\* The blocks built by the statements of __init__
Block108 == _make_first_stage_net(<<LC(0), LC(1)>>)

Block109 == _make_transition(LC(1), Pair(2))

Block118 == _make_inter_stage_net(1, 2, LC(0))

Block119 == _make_transition(LC(2), Pair(2))

Block122 == _make_inter_stage_net(2, 2, LC(1))

\* the third transition left with the default strides
Block123_DefaultStrides == _make_transition(LC(3), Pair(2))

Block123 == _make_transition(LC(3), <<2, 1>>)

Block128 == _make_final_stage_net(3, LC(3))

Add108 == FeaturesAdd("L108", Block108, "L109")

Add109 == FeaturesAdd("L109", Block109, "L118")

Add118 == FeaturesAdd("L118", Block118, "L119")

Add119 == FeaturesAdd("L119", Block119, "L122")

Add122 == FeaturesAdd("L122", Block122, "L123")

Add123 == FeaturesAdd("L123", Block123, "L128")

Add128 == FeaturesAdd("L128", Block128, "built")

----------------------------------------------------------------------------
(* Use of the constructed block *)

\* HybridBlock.hybridize(), inherited: later passes run the whole graph at
\* once, so that a pass that fails allocates nothing
Hybridize ==
    /\ pc = "built"
    /\ ~active
    /\ active' = TRUE
    /\ UNCHANGED <<layer_channels, pc, parentInit, features, alloc, succeeded, last, unit>>

\* a hybridized block answering with the shape cached by its last pass
hybrid_forward_Cached(x) ==
    IF active /\ last.ok
    THEN [RunChildren(features, 1, Start(x, alloc)) EXCEPT !.shape = last.out]
    ELSE RunChildren(features, 1, Start(x, alloc))

\* densenet.py:144-147  x = self.features(x); return x
hybrid_forward(x) == RunChildren(features, 1, Start(x, alloc))

\* The record of a pass on x with walk result r, allocation a afterwards and
\* random draw rnd
Pass(x, r, a, rnd) ==
    [ran |-> TRUE, in |-> x, ok |-> r.ok,
     out |-> IF r.ok THEN r.shape ELSE NoShape,
     noise |-> [k \in 1..r.ndrop |-> rnd],
     trace |-> r.trace,
     allocated |-> a # alloc,
     after_success |-> succeeded,
     again |-> IF last.ran /\ last.in = x
               THEN [ran |-> TRUE, ok |-> last.ok, out |-> last.out, noise |-> last.noise]
               ELSE NoAgain]

\* One call net(x).  Imperative execution allocates layer by layer, also in
\* a pass that fails further on; a hybridized block infers all shapes first.
Forward ==
    /\ pc = "built"
    /\ \E x \in InputShapes, rnd \in NoiseVals :
         \E r \in {hybrid_forward(x)} :
           \E a \in {IF r.ok \/ ~active THEN r.alloc ELSE alloc} :
             /\ alloc' = a
             /\ succeeded' = (succeeded \/ r.ok)
             /\ last' = Pass(x, r, a, rnd)
    /\ UNCHANGED <<layer_channels, pc, parentInit, features, active, unit>>

Next ==
    \/ Assert103
    \/ SuperInit104
    \/ NewFeatures107
    \/ Add108
    \/ Add109
    \/ Add118
    \/ Add119
    \/ Add122
    \/ Add123
    \/ Add128
    \/ Hybridize
    \/ Forward

Spec == Init /\ [][Next]_vars

----------------------------------------------------------------------------
(* The dense-block helpers on their own *)

DenseCases ==
    {[kind |-> "dense_block", num_layers |-> nl, bn_size |-> bs, growth_rate |-> g,
      dropout |-> d, x |-> x, ran |-> FALSE, ok |-> FALSE,
      trace |-> <<>>, inner |-> <<>>] :
        nl \in 1..MaxLayers, bs \in {2, 4}, g \in ChanVals, d \in {0, 50}, x \in BlockShapes}

StageCases ==
    {[kind |-> "stage", stage_index |-> k, x |-> x, ran |-> FALSE, ok |-> FALSE,
      trace |-> <<>>, inner |-> <<>>] :
        k \in {1, 2}, x \in BlockShapes}

InitBlocks ==
    /\ \/ unit \in DenseCases /\ layer_channels = <<>>
       \/ unit \in StageCases /\ layer_channels \in ValidConfigs
    /\ pc = "L103"
    /\ parentInit = FALSE
    /\ features = <<>>
    /\ active = FALSE
    /\ alloc = <<>>
    /\ succeeded = FALSE
    /\ last = NoPass

\* The per-layer shapes of a dense block run on x, and the shapes after each
\* layer inside its first dense layer's cell
Ran(block, r, x) ==
    [unit EXCEPT !.ran = TRUE, !.ok = r.ok, !.trace = r.trace,
                 !.inner = RunChildren(block.children[1].children[2].children, 1,
                                       Fresh(block, x)).trace]

\* _make_dense_block(num_layers, bn_size, growth_rate, dropout, stage_index)(x)
ApplyDenseBlock ==
    /\ unit.kind = "dense_block"
    /\ ~unit.ran
    /\ \E block \in {_make_dense_block(unit.num_layers, unit.bn_size, unit.growth_rate,
                                       unit.dropout, 1)} :
         \E r \in {RunChildren(block.children, 1, Fresh(block, unit.x))} :
           unit' = Ran(block, r, unit.x)
    /\ UNCHANGED <<layer_channels, pc, parentInit, features, active, alloc, succeeded, last>>

\* Stage 1 (densenet.py:118) or stage 2 (densenet.py:122) of the network, fed
\* by the transition added before it (densenet.py:109, 119)
ApplyStage ==
    /\ unit.kind = "stage"
    /\ ~unit.ran
    /\ \E tb \in {IF unit.stage_index = 1 THEN <<Block109, Block118>>
                                           ELSE <<Block119, Block122>>} :
         \E t \in {Apply(tb[1], Fresh(tb[1], unit.x))} :
           \E r \in {IF t.ok THEN RunChildren(tb[2].children, 1, Fresh(tb[2], t.shape))
                             ELSE t} :
             unit' = IF t.ok THEN Ran(tb[2], r, t.shape)
                             ELSE [unit EXCEPT !.ran = TRUE]
    /\ UNCHANGED <<layer_channels, pc, parentInit, features, active, alloc, succeeded, last>>

NextBlocks ==
    \/ ApplyDenseBlock
    \/ ApplyStage

SpecBlocks == InitBlocks /\ [][NextBlocks]_vars

----------------------------------------------------------------------------
(* Properties *)

\* C1: whenever a forward pass succeeds, the channel dimension of its output
\* is layer_channels[3], whatever layer_channels[0..2] and the input's
\* channel count are.
C1_OutputChannels == last.ran /\ last.ok => last.out.c = LC(3)

C1_Witness ==
    /\ last.ran /\ last.ok
    /\ last.in.c = 3
    /\ layer_channels = <<4, 1, 4, 9>>

\* C2: a list whose length is not 4 never gets past the assertion, and when
\* the constructor has stopped on the assertion the parent initialisation
\* has not run and nothing has been added to features.
C2_RejectsBeforeBuild ==
    /\ Len(layer_channels) # 4 => pc \in {"L103", "AssertionError"}
    /\ pc = "AssertionError" =>
         /\ Len(layer_channels) # 4
         /\ ~parentInit
         /\ features = <<>>
         /\ alloc = <<>>

C2_Witness == pc = "AssertionError" /\ Len(layer_channels) = 5

\* C4: a pass on the same input as the pass before it, on the same network,
\* has the same outcome: same success, same output shape, same random
\* draws (none).
C4_Deterministic ==
    last.ran /\ last.again.ran =>
        /\ last.ok = last.again.ok
        /\ last.out = last.again.out
        /\ last.noise = last.again.noise

C4_Witness == last.ran /\ last.again.ran /\ last.ok /\ last.again.ok

\* C5: the output shape of a successful pass is the one a second network,
\* freshly built from the same layer_channels, gives for the same input:
\* neither the allocation state, nor hybridization, nor earlier passes
\* influence it; and a pass returns one tensor with all four dimensions set.
SecondNetwork ==
    <<Block108, Block109, Block118, Block119, Block122, Block123, Block128>>

C6_Lifecycle ==
    [][/\ pc = "built" =>
            /\ pc' = "built"
            /\ features' = features
            /\ Len(alloc') = Len(alloc)
       /\ features' # features => pc \in {"L107", "L108", "L109", "L118", "L119", "L122", "L123", "L128"}
       /\ succeeded => alloc' = alloc]_vars

\* C6 as stated: the same, with only the first forward pass allocating, so
\* that no step taken after a pass has run allocates anything.
C6_OnlyFirstAllocates ==
    [][/\ pc = "built" =>
            /\ pc' = "built"
            /\ features' = features
            /\ Len(alloc') = Len(alloc)
       /\ features' # features => pc \in {"L107", "L108", "L109", "L118", "L119", "L122", "L123", "L128"}
       /\ last.ran => alloc' = alloc]_vars

C6_Witness ==
    /\ last.ran /\ last.ok /\ last.after_success /\ ~last.allocated
    /\ Len(features) = 7

\* C7: each dense layer outputs in_channels + growth_rate channels at
\* unchanged batch, height and width (bottleneck bn_size * growth_rate wide,
\* 3x3 convolution growth_rate wide), a block of num_layers layers outputs
\* in_channels + num_layers * growth_rate, the depth grows strictly from
\* layer to layer; stage 1 outputs c1 + 2 * c0 and stage 2 c2 + 2 * c1.
GrowsBy(x, g, n, trace) ==
    /\ Len(trace) = n
    /\ \A k \in 1..n :
         /\ trace[k] = Shape(x.n, x.c + k * g, x.h, x.w)
         /\ trace[k].c > (IF k = 1 THEN x.c ELSE trace[k - 1].c)

C7_DenseGrowth ==
    /\ unit.kind = "dense_block" /\ unit.ran =>
         /\ unit.ok
         /\ GrowsBy(unit.x, unit.growth_rate, unit.num_layers, unit.trace)
         /\ unit.trace[unit.num_layers].c
                = unit.x.c + unit.num_layers * unit.growth_rate
         /\ unit.inner[3].c = unit.bn_size * unit.growth_rate
         /\ unit.inner[6].c = unit.growth_rate
         /\ \A k \in 1..Len(unit.inner) :
              unit.inner[k].h = unit.x.h /\ unit.inner[k].w = unit.x.w
    /\ unit.kind = "stage" /\ unit.ran /\ unit.ok =>
         /\ Len(unit.trace) = 2
         /\ unit.trace[2].c = LC(unit.stage_index) + 2 * LC(unit.stage_index - 1)
         /\ unit.trace[1].c = LC(unit.stage_index) + LC(unit.stage_index - 1)
         /\ unit.inner[3].c = 2 * LC(unit.stage_index - 1)

C7_Witness ==
    /\ unit.kind = "dense_block" /\ unit.ran /\ unit.ok
    /\ unit.num_layers = 3 /\ unit.growth_rate = 4 /\ unit.bn_size = 4
    /\ unit.x.c = 6

\* C8 (as amended): the k-th transition outputs exactly its
\* num_output_features = layer_channels[k] channels, at the same batch size;
\* height h becomes h // 2, width w becomes w // 2 (transitions 1 and 2) or
\* w - 1 (transition 3), both strictly smaller than before.  The first
\* transition never outputs more channels than it receives; the second does
\* so exactly when c2 > c1 + 2 * c0 and the third exactly when
\* c3 > c2 + 2 * c1.
TransitionDone(k) == last.ran /\ Len(last.trace) >= 2 * k

TransitionShapes(k) ==
    LET in == last.trace[2 * k - 1]
        out == last.trace[2 * k]
    IN  /\ out.c = LC(k)
        /\ out.n = in.n
        /\ out.h = in.h \div 2
        /\ out.w = (IF k = 3 THEN in.w - 1 ELSE in.w \div 2)
        /\ out.h < in.h
        /\ out.w < in.w

C8_Transition ==
    \A k \in 1..3 : TransitionDone(k) =>
        /\ TransitionShapes(k)
        /\ k = 1 => last.trace[2].c <= last.trace[1].c
        /\ k = 2 => (last.trace[4].c <= last.trace[3].c <=> LC(2) <= LC(1) + 2 * LC(0))
        /\ k = 3 => (last.trace[6].c <= last.trace[5].c <=> LC(3) <= LC(2) + 2 * LC(1))

\* C8 as stated: the same shapes, and no transition ever outputs more
\* channels than it receives.
C8_NeverWidens ==
    \A k \in 1..3 : TransitionDone(k) =>
        /\ TransitionShapes(k)
        /\ last.trace[2 * k].c <= last.trace[2 * k - 1].c

C8_Witness ==
    /\ TransitionDone(3) /\ last.ok
    /\ LC(2) > LC(1) + 2 * LC(0)
    /\ last.trace[6].w = last.trace[5].w - 1

\* C9: at every point of the construction features holds the first blocks
\* of the fixed seven-block sequence: first-stage net (c0 then c1, joined to
\* the input), transition to c1, dense block 2 x c0, transition to c2, dense
\* block 2 x c1, transition to c3 with strides (2, 1), final-stage block c3;
\* a built network holds all seven and nothing else.
IsConv(l, channels, kernel_size, strides, padding) ==
    /\ l.op = "Conv2D"
    /\ l.channels = channels
    /\ l.kernel_size = kernel_size
    /\ l.strides = strides
    /\ l.padding = padding

IsResidual(l) ==
    /\ l.op = "HybridConcurrent"
    /\ l.axis = 1
    /\ Len(l.children) = 2
    /\ l.children[1].op = "Identity"
    /\ l.children[2].op = "HybridSequential"

Ops(children) == [k \in 1..Len(children) |-> children[k].op]

IsFirstStage(l, c0, c1) ==
    /\ IsResidual(l)
    /\ LET cs == l.children[2].children
       IN  /\ Ops(cs) = <<"Conv2D", "BatchNorm", "Activation", "Conv2D">>
           /\ IsConv(cs[1], c0, <<3, 3>>, <<1, 1>>, <<1, 1>>)
           /\ IsConv(cs[4], c1, <<3, 3>>, <<1, 1>>, <<1, 1>>)

IsTransition(l, c, strides) ==
    /\ l.op = "HybridSequential"
    /\ Ops(l.children) = <<"BatchNorm", "Activation", "Conv2D", "MaxPool2D">>
    /\ IsConv(l.children[3], c, <<1, 1>>, <<1, 1>>, <<0, 0>>)
    /\ l.children[4].pool_size = <<2, 2>>
    /\ l.children[4].strides = strides

IsDenseLayer(l, growth) ==
    /\ IsResidual(l)
    /\ LET cs == l.children[2].children
       IN  /\ Ops(cs) = <<"BatchNorm", "Activation", "Conv2D",
                         "BatchNorm", "Activation", "Conv2D">>
           /\ IsConv(cs[3], 2 * growth, <<1, 1>>, <<1, 1>>, <<0, 0>>)
           /\ IsConv(cs[6], growth, <<3, 3>>, <<1, 1>>, <<1, 1>>)

IsDenseBlock(l, growth) ==
    /\ l.op = "HybridSequential"
    /\ Len(l.children) = 2
    /\ \A k \in 1..2 : IsDenseLayer(l.children[k], growth)

IsFinalStage(l, c) ==
    /\ l.op = "HybridSequential"
    /\ Ops(l.children) = <<"BatchNorm", "Activation", "Conv2D", "BatchNorm",
                           "Activation", "Conv2D", "BatchNorm", "Activation">>
    /\ IsConv(l.children[3], c \div 4, <<1, 1>>, <<1, 1>>, <<0, 0>>)
    /\ IsConv(l.children[6], c, <<4, 1>>, <<1, 1>>, <<0, 0>>)

InPlace(k) ==
    CASE k = 1 -> IsFirstStage(features[1], LC(0), LC(1))
      [] k = 2 -> IsTransition(features[2], LC(1), <<2, 2>>)
      [] k = 3 -> IsDenseBlock(features[3], LC(0))
      [] k = 4 -> IsTransition(features[4], LC(2), <<2, 2>>)
      [] k = 5 -> IsDenseBlock(features[5], LC(1))
      [] k = 6 -> IsTransition(features[6], LC(3), <<2, 1>>)
      [] k = 7 -> IsFinalStage(features[7], LC(3))

C9_SevenBlocks ==
    /\ Len(features) <= 7
    /\ \A k \in 1..Len(features) : InPlace(k)
    /\ pc = "built" <=> Len(features) = 7
    /\ pc = "L128" => Len(features) = 6

C9_Witness == pc = "built" /\ layer_channels = <<1, 4, 1, 9>> /\ Len(features) = 7

====
